---- MODULE Spec2Model ----
(***************************************************************************)
(* huracan: the extract -> transform -> (driver) pipeline of src/main/src.  *)
(*                                                                         *)
(* The specifications below share the variables:                           *)
(*   Spec           the extractor generator (etl.rs extract), polled by a  *)
(*                  consumer, racing page requests against rx_term;        *)
(*   TransformSpec  the transformer generator (etl.rs transform) over an   *)
(*                  arbitrary bounded input stream, pulled to exhaustion;  *)
(*   DriverSpec     the transformer consumed by the driver of main.rs      *)
(*                  (the 'all' command: filter stream + while-let loop);   *)
(*   LoadSpec       the loader generator (etl.rs load) over an arbitrary   *)
(*                  bounded input stream, pulled to exhaustion;            *)
(*   LiveSpec, TransformLiveSpec   Spec and TransformSpec with the         *)
(*                  fairness of a runtime that keeps polling.              *)
(*                                                                         *)
(* Option<T> is modelled as a sequence of length <= 1: None is << >> and   *)
(* Some(x) is << x >>.                                                      *)
(***************************************************************************)
EXTENDS Naturals, Sequences, FiniteSets

VARIABLES
    \* ---- extract (etl.rs 67-118) ----
    start_from,   \* the start_from argument
    cursor,       \* let mut cursor
    skip_page,    \* let mut skip_page
    retry_count,  \* let mut retry_count
    epc,          \* where the generator is suspended
    page,         \* the Ok(page) being iterated (kept after the iteration)
    bi, ci,       \* position of the two nested for loops (block, change)
    reqCursor,    \* the cursor argument of the request in flight
    resp,         \* Option: the completed result of the request in flight
    rx_term,      \* the oneshot receiver: "pending" or "ready"
    nreq,         \* number of requests issued so far
    emitted,      \* every ObjectSnapshot the extractor has yielded, in order
    calls,        \* every on_next_page(previous, next) invocation, in order
    oks,          \* every Ok(page) taken by the loop, in order
    \* ---- transform (etl.rs 134-222) ----
    input,        \* the transformer's input stream
    consumed,     \* how many input items the chunker has pulled
    skip,         \* let skip = chunk.drain_filter(..): still to be yielded
    chunk,        \* the chunk after drain_filter (the needs-fetch items)
    objs,         \* the Ok(objs) of the bulk call
    zi,           \* position of the loop over chunk (both paths)
    tpc,          \* where the generator is suspended
    pending,      \* Option: the pair yielded and not yet taken by the consumer
    tout,         \* every pair the transformer has yielded, in order
    absorbed,     \* every item parse_past_object_response answered None for
    rpcs,         \* every object request the remote has answered, with the answer
    batches,      \* every chunk chunks_timeout has handed to the transformer
    \* ---- driver (main.rs 101-123) ----
    dpc,          \* "running" or "done"
    passed,       \* every item the driver's filter stream has yielded
    logged,       \* every item printed by main's while-let loop
    \* ---- load (etl.rs 224-280) and the store ----
    lin,          \* the loader's input stream
    lconsumed,    \* how many input items the loader's chunker has pulled
    lchunk,       \* the chunk being iterated
    li,           \* position of the for loop over the chunk
    lpc,          \* where the generator is suspended
    lpending,     \* Option: the pair yielded and not yet taken by the consumer
    lout,         \* every pair the loader has yielded, in order
    storeOps      \* every operation issued on the mongodb collection

evars == <<start_from, cursor, skip_page, retry_count, epc, page, bi, ci,
           reqCursor, resp, rx_term, nreq, emitted, calls, oks>>
tvars == <<input, consumed, skip, chunk, objs, zi, tpc, pending, tout, absorbed,
           rpcs, batches>>
lvars == <<lin, lconsumed, lchunk, li, lpc, lpending, lout, storeOps>>
dvars == <<dpc, passed, logged, lvars>>
vars == <<evars, tvars, dvars>>

None == << >>
Some(x) == << x >>

\* ---- bounds ----
MaxRequests == 3
MaxInput == 3

\* etl.rs:25
SUI_QUERY_MAX_RESULT_LIMIT == 50

\* ---- the data model ----
Digests == {"d1", "d2", "d3"}
\* the next cursors the remote hands out
OptCursor == {None, Some("d2"), Some("d3")}

Change(kind, id, version) == [kind |-> kind, object_id |-> id, version |-> version]

\* A short stretch of remote history: three transaction blocks, the second
\* without object changes.  A page's data is a prefix of it (the empty page
\* included) or its last block alone.
SampleBlocks ==
    << [digest |-> "d1", object_changes |-> Some(<< Change("Created", "0xa", 1),
                                                    Change("Deleted", "0xb", 4) >>)],
       [digest |-> "d2", object_changes |-> None],
       [digest |-> "d3", object_changes |-> Some(<< Change("Mutated", "0xa", 2) >>)] >>

Window(i, j) == [k \in 1..(j - i + 1) |-> SampleBlocks[i + k - 1]]

PageData ==
    {Window(1, j) : j \in 0..Len(SampleBlocks)}
    \cup {Window(Len(SampleBlocks), Len(SampleBlocks))}

IsPrefix(s, t) == Len(s) <= Len(t) /\ \A k \in 1..Len(s) : s[k] = t[k]

\* etl.rs 34-38
ObjectSnapshot_new(digest, change) == [digest |-> digest, change |-> change, object |-> None]

\* Mutant of Seek: a block without object changes ends the iteration.
RECURSIVE Seek_StopsAtNone(_, _, _)
Seek_StopsAtNone(data, b, c) ==
    IF b > Len(data) THEN <<Len(data) + 1, 1>>
    ELSE IF data[b].object_changes = None THEN <<Len(data) + 1, 1>>
    ELSE IF c <= Len(data[b].object_changes[1])
         THEN <<b, c>>
         ELSE Seek_StopsAtNone(data, b + 1, 1)

\* The next (block, change) position at or after (b, c) that holds a change
\* record; <<Len(data) + 1, 1>> when the two for loops are exhausted.
RECURSIVE Seek(_, _, _)
Seek(data, b, c) ==
    IF b > Len(data) THEN <<Len(data) + 1, 1>>
    ELSE IF data[b].object_changes # None /\ c <= Len(data[b].object_changes[1])
         THEN <<b, c>>
         ELSE Seek(data, b + 1, 1)


NoPage == [data |-> << >>, next_cursor |-> None]

\* ---- transform and driver stay idle under Spec ----
TIdle ==
    /\ input = << >> /\ consumed = 0 /\ skip = << >> /\ chunk = << >> /\ objs = << >>
    /\ zi = 1 /\ tpc = "await_chunk" /\ pending = None /\ tout = << >> /\ absorbed = << >>
    /\ rpcs = << >> /\ batches = << >>
LIdle ==
    /\ lin = << >> /\ lconsumed = 0 /\ lchunk = << >> /\ li = 1 /\ lpc = "await_chunk"
    /\ lpending = None /\ lout = << >> /\ storeOps = << >>
DStart == dpc = "running" /\ passed = << >> /\ logged = << >>
DIdle == DStart /\ LIdle

\* ---- extract: etl.rs 67-118 ----
\* etl.rs 73-79: the state captured by the stream! block.
EInit ==
    /\ start_from \in {None, Some("d1")}
    /\ cursor = start_from
    /\ skip_page = FALSE
    /\ retry_count = 0
    /\ epc = "select"
    /\ page = NoPage /\ bi = 1 /\ ci = 1
    /\ reqCursor = None /\ resp = None
    /\ rx_term = "pending"
    /\ nreq = 0
    /\ emitted = << >> /\ calls = << >> /\ oks = << >>

Init == EInit /\ TIdle /\ DIdle

\* main.rs 43-50: ctrl-c arrives and the listener task sends on the oneshot.
SignalFires ==
    /\ rx_term = "pending"
    /\ rx_term' = "ready"
    /\ UNCHANGED <<start_from, cursor, skip_page, retry_count, epc, page, bi, ci,
                   reqCursor, resp, nreq, emitted, calls, oks>>
    /\ UNCHANGED <<tvars, dvars>>

\* etl.rs 83-84: a loop iteration enters select! and the query future is
\* created with the current cursor; rx_term is not ready, so the select pends.
SelectIssue ==
    /\ epc = "select" /\ rx_term = "pending"
    /\ nreq < MaxRequests
    /\ epc' = "await"
    /\ reqCursor' = cursor
    /\ resp' = None
    /\ nreq' = nreq + 1
    /\ UNCHANGED <<start_from, cursor, skip_page, retry_count, page, bi, ci,
                   rx_term, emitted, calls, oks>>
    /\ UNCHANGED <<tvars, dvars>>

\* The remote answers the request in flight: an error, or a page.  A page
\* polled again for the same cursor (skip_page) extends what that cursor
\* returned before: the remote history is append-only.  late records whether
\* rx_term was already ready when the answer arrived.
Respond(r) ==
    /\ epc = "await" /\ resp = None
    /\ r.ok /\ skip_page => IsPrefix(page.data, r.data)
    /\ resp' = Some([r EXCEPT !.late = (rx_term = "ready")])
    /\ UNCHANGED <<start_from, cursor, skip_page, retry_count, epc, page, bi, ci,
                   reqCursor, rx_term, nreq, emitted, calls, oks>>
    /\ UNCHANGED <<tvars, dvars>>

Responses ==
    {[ok |-> FALSE, data |-> << >>, next_cursor |-> None, late |-> FALSE]}
    \cup {[ok |-> TRUE, data |-> d, next_cursor |-> n, late |-> FALSE] :
            d \in PageData, n \in OptCursor}

Responded == epc = "await" /\ resp = None /\ \E r \in Responses : Respond(r)

\* Mutant of SelectTerm: the rx_term branch forgets to break and the loop
\* goes round.
SelectTerm_NoBreak ==
    /\ epc \in {"select", "await"} /\ rx_term = "ready"
    /\ epc' = "sleep_err"
    /\ UNCHANGED <<start_from, cursor, skip_page, retry_count, page, bi, ci,
                   reqCursor, resp, rx_term, nreq, emitted, calls, oks>>
    /\ UNCHANGED <<tvars, dvars>>

\* Mutant of SelectTerm: the rx_term branch consumes the signal and the loop
\* goes round instead of breaking.
SelectTerm_ConsumesSignal ==
    /\ epc \in {"select", "await"} /\ rx_term = "ready"
    /\ epc' = "select"
    /\ rx_term' = "pending"
    /\ UNCHANGED <<start_from, cursor, skip_page, retry_count, page, bi, ci,
                   reqCursor, resp, nreq, emitted, calls, oks>>
    /\ UNCHANGED <<tvars, dvars>>

\* etl.rs 114: the rx_term branch of select! wins: break.  It can win whenever
\* rx_term is ready, whether the request is still in flight (it is dropped),
\* has completed too (select! polls its branches in random order), or was
\* about to be issued.
SelectTerm ==
    /\ epc \in {"select", "await"} /\ rx_term = "ready"
    /\ epc' = "done"
    /\ UNCHANGED <<start_from, cursor, skip_page, retry_count, page, bi, ci,
                   reqCursor, resp, rx_term, nreq, emitted, calls, oks>>
    /\ UNCHANGED <<tvars, dvars>>

\* etl.rs 85-88: the page branch wins with Ok(page).
PageOk ==
    /\ epc = "await" /\ resp # None /\ resp[1].ok
    /\ retry_count' = 0
    /\ page' = [data |-> resp[1].data, next_cursor |-> resp[1].next_cursor]
    /\ bi' = 1 /\ ci' = 1
    /\ epc' = "emit"
    /\ oks' = Append(oks, [cursor |-> reqCursor, data |-> resp[1].data,
                           next_cursor |-> resp[1].next_cursor, skip |-> skip_page,
                           late |-> resp[1].late])
    /\ resp' = None
    /\ UNCHANGED <<start_from, cursor, skip_page, reqCursor, rx_term, nreq,
                   emitted, calls>>
    /\ UNCHANGED <<tvars, dvars>>

\* Mutant of PageErr: the second failure in a row ends the stream.
PageErr_GivesUp ==
    /\ epc = "await" /\ resp # None /\ ~resp[1].ok
    /\ retry_count' = retry_count + 1
    /\ epc' = IF retry_count >= 1 THEN "done" ELSE "sleep_err"
    /\ resp' = None
    /\ UNCHANGED <<start_from, cursor, skip_page, page, bi, ci, reqCursor,
                   rx_term, nreq, emitted, calls, oks>>
    /\ UNCHANGED <<tvars, dvars>>

\* etl.rs 107-111: the page branch wins with Err(err); sleep 500 ms.
PageErr ==
    /\ epc = "await" /\ resp # None /\ ~resp[1].ok
    /\ retry_count' = retry_count + 1
    /\ epc' = "sleep_err"
    /\ resp' = None
    /\ UNCHANGED <<start_from, cursor, skip_page, page, bi, ci, reqCursor,
                   rx_term, nreq, emitted, calls, oks>>
    /\ UNCHANGED <<tvars, dvars>>

\* etl.rs 88-96: one yield of the nested for loops.
Yield ==
    /\ epc = "emit" /\ ~skip_page
    /\ LET p == Seek(page.data, bi, ci) IN
        /\ p[1] <= Len(page.data)
        /\ emitted' = Append(emitted,
               ObjectSnapshot_new(page.data[p[1]].digest,
                                  page.data[p[1]].object_changes[1][p[2]]))
        /\ bi' = p[1] /\ ci' = p[2] + 1
    /\ UNCHANGED <<start_from, cursor, skip_page, retry_count, epc, page,
                   reqCursor, resp, rx_term, nreq, calls, oks>>
    /\ UNCHANGED <<tvars, dvars>>

LoopsDone == skip_page \/ Seek(page.data, bi, ci)[1] > Len(page.data)

\* etl.rs 97-100: no next cursor: mark the following page skip, sleep 10 s.
EndPageStall ==
    /\ epc = "emit" /\ LoopsDone
    /\ page.next_cursor = None
    /\ skip_page' = TRUE
    /\ epc' = "sleep_stall"
    /\ UNCHANGED <<start_from, cursor, retry_count, page, bi, ci, reqCursor, resp,
                   rx_term, nreq, emitted, calls, oks>>
    /\ UNCHANGED <<tvars, dvars>>

\* Mutant of EndPageAdvance: the cursor is advanced before the callback runs.
EndPageAdvance_AdvanceFirst ==
    /\ epc = "emit" /\ LoopsDone
    /\ page.next_cursor # None
    /\ skip_page' = FALSE
    /\ cursor' = page.next_cursor
    /\ calls' = Append(calls, [previous |-> cursor', next |-> page.next_cursor[1]])
    /\ epc' = "select"
    /\ page' = NoPage /\ bi' = 1 /\ ci' = 1
    /\ UNCHANGED <<start_from, retry_count, reqCursor, resp,
                   rx_term, nreq, emitted, oks>>
    /\ UNCHANGED <<tvars, dvars>>

\* etl.rs 101-105: a next cursor: clear skip, call back, advance.
EndPageAdvance ==
    /\ epc = "emit" /\ LoopsDone
    /\ page.next_cursor # None
    /\ skip_page' = FALSE
    /\ calls' = Append(calls, [previous |-> cursor, next |-> page.next_cursor[1]])
    /\ cursor' = page.next_cursor
    /\ epc' = "select"
    /\ page' = NoPage /\ bi' = 1 /\ ci' = 1
    /\ UNCHANGED <<start_from, retry_count, reqCursor, resp,
                   rx_term, nreq, emitted, oks>>
    /\ UNCHANGED <<tvars, dvars>>

\* etl.rs 100, 110: the sleep ends and the loop goes round.
Wake ==
    /\ epc \in {"sleep_stall", "sleep_err"}
    /\ epc' = "select"
    /\ UNCHANGED <<start_from, cursor, skip_page, retry_count, page, bi, ci,
                   reqCursor, resp, rx_term, nreq, emitted, calls, oks>>
    /\ UNCHANGED <<tvars, dvars>>

Next ==
    \/ SignalFires
    \/ SelectIssue
    \/ Responded
    \/ SelectTerm
    \/ PageOk
    \/ PageErr
    \/ Yield
    \/ EndPageStall
    \/ EndPageAdvance
    \/ Wake

Spec == Init /\ [][Next]_vars

\* The steps the extractor takes by itself when its consumer keeps polling
\* it and the runtime fires the timers and the wake-up of rx_term: all but
\* the arrival of the signal, the remote's answering and the issuing of a
\* further request.
Progress ==
    \/ SelectTerm
    \/ PageOk
    \/ PageErr
    \/ Yield
    \/ EndPageStall
    \/ EndPageAdvance
    \/ Wake

LiveSpec == Init /\ [][Next]_vars /\ WF_vars(Progress)


\* ---- transform: etl.rs 134-222 ----
Kinds == {"Published", "Created", "Mutated", "Transferred", "Deleted", "Wrapped"}

\* The transformer's input streams: up to MaxInput snapshots as extract
\* creates them, the i-th at version i of one object, of one variant for
\* each way the pipeline treats a change: fetched and upserted (Created, as
\* Mutated), fetched only (Published), deleted (Deleted), passed by
\* (Transferred, as Wrapped).
InputKinds == {"Published", "Created", "Deleted", "Transferred"}
Inputs ==
    UNION {[1..n -> InputKinds] : n \in 0..MaxInput}
InputOf(ks) == [i \in 1..Len(ks) |-> ObjectSnapshot_new("d1", Change(ks[i], "0xa", i))]

\* etl.rs 41-51
get_change_version(o) == o.change.version

\* etl.rs 53-55
get_past_object_request(o) ==
    [object_id |-> o.change.object_id, version |-> get_change_version(o)]

\* Mutant of skip_fetching_object: Deleted is fetched like Created.
skip_fetching_object_FetchesDeleted(o) ==
    ~(o.change.kind \in {"Published", "Created", "Mutated", "Deleted"})

\* etl.rs 58-64
skip_fetching_object(o) ==
    ~(o.change.kind \in {"Published", "Created", "Mutated"})

needs_fetching_object(o) == ~skip_fetching_object(o)

\* SuiPastObjectResponse: its variant, and the object data it carries.
PastTags == {"VersionFound", "ObjectDeleted", "ObjectNotExists", "VersionNotFound",
             "VersionTooHigh"}
PastResponse(tag, k) == [tag |-> tag, obj |-> [data |-> k]]

\* etl.rs 154-173
parse_past_object_response(res) ==
    IF res.tag = "VersionFound" THEN Some(res.obj) ELSE None

\* The answers try_multi_get_parsed_past_object gives to a query of n
\* requests in this model: of the right length or one off, at each place a
\* found object or one of two no-object variants.
AnswerTags == {"VersionFound", "ObjectDeleted", "VersionTooHigh"}
BulkAnswers(n) ==
    UNION {{[k \in 1..m |-> PastResponse(tags[k], k)] : tags \in [1..m -> AnswerTags]} :
             m \in {l \in (n - 1)..(n + 1) : l >= 0}}

Min(a, b) == IF a <= b THEN a ELSE b

Pair(status, item) == [status |-> status, item |-> item]

EIdle ==
    /\ start_from = None /\ cursor = None /\ skip_page = FALSE /\ retry_count = 0
    /\ epc = "done" /\ page = NoPage /\ bi = 1 /\ ci = 1 /\ reqCursor = None
    /\ resp = None /\ rx_term = "ready" /\ nreq = 0
    /\ emitted = << >> /\ calls = << >> /\ oks = << >>

TInit ==
    /\ \E ks \in Inputs : input = InputOf(ks)
    /\ consumed = 0 /\ skip = << >> /\ chunk = << >> /\ objs = << >> /\ zi = 1
    /\ tpc = "await_chunk" /\ pending = None /\ tout = << >> /\ absorbed = << >>
    /\ rpcs = << >> /\ batches = << >>

\* The generator hands a pair to its consumer and suspends at the yield.
YieldPair(status, item) ==
    /\ pending' = Some(Pair(status, item))
    /\ tout' = Append(tout, Pair(status, item))

\* Mutant of NextChunk: the skip-fetch items are copied out with a filter
\* and stay in the chunk as well.
NextChunk_NoDrain(n) ==
    /\ tpc = "await_chunk" /\ pending = None
    /\ n >= 1 /\ n <= Min(SUI_QUERY_MAX_RESULT_LIMIT, Len(input) - consumed)
    /\ LET whole == SubSeq(input, consumed + 1, consumed + n) IN
        /\ skip' = SelectSeq(whole, skip_fetching_object)
        /\ chunk' = whole
    /\ consumed' = consumed + n
    /\ tpc' = "yield_skip"
    /\ batches' = Append(batches, SubSeq(input, consumed + 1, consumed + n))
    /\ UNCHANGED <<input, objs, zi, pending, tout, absorbed, rpcs>>
    /\ UNCHANGED <<evars, dvars>>

\* etl.rs 142, 176-178: chunks_timeout hands over the next chunk (n items:
\* the limit was reached, the second elapsed, or the input ended) and
\* drain_filter splits it.
NextChunk(n) ==
    /\ tpc = "await_chunk" /\ pending = None
    /\ n >= 1 /\ n <= Min(SUI_QUERY_MAX_RESULT_LIMIT, Len(input) - consumed)
    /\ LET whole == SubSeq(input, consumed + 1, consumed + n) IN
        /\ skip' = SelectSeq(whole, skip_fetching_object)
        /\ chunk' = SelectSeq(whole, needs_fetching_object)
    /\ consumed' = consumed + n
    /\ tpc' = "yield_skip"
    /\ batches' = Append(batches, SubSeq(input, consumed + 1, consumed + n))
    /\ UNCHANGED <<input, objs, zi, pending, tout, absorbed, rpcs>>
    /\ UNCHANGED <<evars, dvars>>

\* etl.rs 176: the chunk stream ends, and so does the generator.
EndOfInput ==
    /\ tpc = "await_chunk" /\ pending = None
    /\ consumed = Len(input)
    /\ tpc' = "done"
    /\ UNCHANGED <<batches, input, consumed, skip, chunk, objs, zi, pending, tout, absorbed, rpcs>>
    /\ UNCHANGED <<evars, dvars>>

\* Mutant of YieldSkip: the skip items are taken from the back.
YieldSkip_FromBack ==
    /\ tpc = "yield_skip" /\ pending = None
    /\ skip # << >>
    /\ YieldPair("Ok", skip[Len(skip)])
    /\ skip' = SubSeq(skip, 1, Len(skip) - 1)
    /\ UNCHANGED <<batches, input, consumed, chunk, objs, zi, tpc, absorbed, rpcs>>
    /\ UNCHANGED <<evars, dvars>>

\* etl.rs 179-181
YieldSkip ==
    /\ tpc = "yield_skip" /\ pending = None
    /\ skip # << >>
    /\ YieldPair("Ok", Head(skip))
    /\ skip' = Tail(skip)
    /\ UNCHANGED <<batches, input, consumed, chunk, objs, zi, tpc, absorbed, rpcs>>
    /\ UNCHANGED <<evars, dvars>>

\* etl.rs 182
query_objs == [k \in 1..Len(chunk) |-> get_past_object_request(chunk[k])]

Rpc(call, reqs, ok, answer) == [call |-> call, reqs |-> reqs, ok |-> ok, answer |-> answer]

\* etl.rs 182-183: the bulk call is sent (also for an empty chunk).
BulkCall ==
    /\ tpc = "yield_skip" /\ pending = None
    /\ skip = << >>
    /\ tpc' = "bulk"
    /\ UNCHANGED <<batches, input, consumed, skip, chunk, objs, zi, pending, tout, absorbed, rpcs>>
    /\ UNCHANGED <<evars, dvars>>

\* etl.rs 184-188: the bulk call fails; fall back to one call per item.
BulkErr ==
    /\ tpc = "bulk"
    /\ tpc' = "indiv"
    /\ zi' = 1
    /\ rpcs' = Append(rpcs, Rpc("multi", query_objs, FALSE, << >>))
    /\ UNCHANGED <<batches, input, consumed, skip, chunk, objs, pending, tout, absorbed>>
    /\ UNCHANGED <<evars, dvars>>

\* Mutant of LenMismatch: only an answer longer than the request is refused.
LenMismatch_OnlyLonger(os, ch) == Len(os) > Len(ch)

\* etl.rs 208-210
LenMismatch(os, ch) == Len(os) # Len(ch)

\* etl.rs 204-211: the bulk call answers; panic on a length mismatch.
BulkOk(os) ==
    /\ tpc = "bulk"
    /\ objs' = os
    /\ zi' = 1
    /\ tpc' = IF LenMismatch(os, chunk) THEN "panicked" ELSE "zip"
    /\ rpcs' = Append(rpcs, Rpc("multi", query_objs, TRUE, os))
    /\ UNCHANGED <<batches, input, consumed, skip, chunk, pending, tout, absorbed>>
    /\ UNCHANGED <<evars, dvars>>

BulkAnswered == tpc = "bulk" /\ \E os \in BulkAnswers(Len(chunk)) : BulkOk(os)

\* Mutant of Resolve: a no-object answer is reported as a failure.
Resolve_ErrOnAbsent(snapshot, res) ==
    IF parse_past_object_response(res) # None
    THEN /\ YieldPair("Ok", [snapshot EXCEPT !.object = parse_past_object_response(res)])
         /\ UNCHANGED absorbed
    ELSE /\ YieldPair("Err", snapshot)
         /\ UNCHANGED absorbed

\* What the loops emit for one snapshot once its response is parsed:
\* etl.rs 196-199 and 213-216.
Resolve(snapshot, res) ==
    IF parse_past_object_response(res) # None
    THEN /\ YieldPair("Ok", [snapshot EXCEPT !.object = parse_past_object_response(res)])
         /\ UNCHANGED absorbed
    ELSE /\ absorbed' = Append(absorbed, snapshot)
         /\ UNCHANGED <<pending, tout>>

\* etl.rs 211-217: one iteration of zip(chunk, objs).
ZipStep ==
    /\ tpc = "zip" /\ pending = None
    /\ zi <= Min(Len(chunk), Len(objs))
    /\ Resolve(chunk[zi], objs[zi])
    /\ zi' = zi + 1
    /\ UNCHANGED <<batches, input, consumed, skip, chunk, objs, tpc, rpcs>>
    /\ UNCHANGED <<evars, dvars>>

\* Mutant of IndivStep: the fallback loop gives up at the first failed call.
IndivStep_BreakOnErr(ok, res) ==
    /\ tpc = "indiv" /\ pending = None
    /\ zi <= Len(chunk)
    /\ rpcs' = Append(rpcs, Rpc("single", << get_past_object_request(chunk[zi]) >>, ok,
                                IF ok THEN << res >> ELSE << >>))
    /\ IF ok THEN Resolve(chunk[zi], res) /\ zi' = zi + 1
             ELSE YieldPair("Err", chunk[zi]) /\ UNCHANGED absorbed /\ zi' = Len(chunk) + 1
    /\ UNCHANGED <<batches, input, consumed, skip, chunk, objs, tpc>>
    /\ UNCHANGED <<evars, dvars>>

\* etl.rs 188-201: one iteration of the fallback loop: the individual call
\* for chunk[zi], answered Err or Ok(res).
IndivStep(ok, res) ==
    /\ tpc = "indiv" /\ pending = None
    /\ zi <= Len(chunk)
    /\ rpcs' = Append(rpcs, Rpc("single", << get_past_object_request(chunk[zi]) >>, ok,
                                IF ok THEN << res >> ELSE << >>))
    /\ IF ok THEN Resolve(chunk[zi], res)
             ELSE YieldPair("Err", chunk[zi]) /\ UNCHANGED absorbed
    /\ zi' = zi + 1
    /\ UNCHANGED <<batches, input, consumed, skip, chunk, objs, tpc>>
    /\ UNCHANGED <<evars, dvars>>

\* Mutant of ChunkDone: the generator returns after its first chunk.
ChunkDone_Returns ==
    /\ tpc \in {"zip", "indiv"} /\ pending = None
    /\ zi > (IF tpc = "zip" THEN Min(Len(chunk), Len(objs)) ELSE Len(chunk))
    /\ tpc' = "done"
    /\ chunk' = << >> /\ objs' = << >> /\ zi' = 1
    /\ UNCHANGED <<batches, input, consumed, skip, pending, tout, absorbed, rpcs>>
    /\ UNCHANGED <<evars, dvars>>

\* etl.rs 176, 202, 217: the loop has consumed chunk (and objs); the
\* generator asks for the next chunk.
ChunkDone ==
    /\ tpc \in {"zip", "indiv"} /\ pending = None
    /\ zi > (IF tpc = "zip" THEN Min(Len(chunk), Len(objs)) ELSE Len(chunk))
    /\ tpc' = "await_chunk"
    /\ chunk' = << >> /\ objs' = << >> /\ zi' = 1
    /\ UNCHANGED <<batches, input, consumed, skip, pending, tout, absorbed, rpcs>>
    /\ UNCHANGED <<evars, dvars>>

\* The answers try_get_parsed_past_object gives in this model.
IndivAnswers ==
    {<<FALSE, PastResponse("VersionNotFound", 0)>>}
    \cup {<<TRUE, PastResponse(t, 0)>> : t \in AnswerTags}

IndivAnswered == tpc = "indiv" /\ \E a \in IndivAnswers : IndivStep(a[1], a[2])

TransformNext ==
    \/ \E n \in 1..MaxInput : NextChunk(n)
    \/ EndOfInput
    \/ YieldSkip
    \/ BulkCall
    \/ BulkErr
    \/ BulkAnswered
    \/ ZipStep
    \/ IndivAnswered
    \/ ChunkDone

\* A consumer that keeps polling the stream takes the yielded pair.
Pull ==
    /\ pending # None
    /\ pending' = None
    /\ UNCHANGED <<batches, input, consumed, skip, chunk, objs, zi, tpc, tout, absorbed, rpcs>>
    /\ UNCHANGED <<evars, dvars>>

TransformInit == EIdle /\ TInit /\ DIdle
PullNext == TransformNext \/ Pull
TransformSpec == TransformInit /\ [][PullNext]_vars

\* The transformer with a consumer that keeps polling, a chunk stream that
\* keeps delivering and a remote that answers every call: whatever step is
\* possible is eventually taken.
TransformLiveSpec == TransformInit /\ [][PullNext]_vars /\ WF_vars(PullNext)

\* ---- the driver: main.rs 101-123 ----
\* Mutant of DriverStep: an Err pair is skipped and the loop goes on.
DriverStep_Continue ==
    /\ dpc = "running" /\ pending # None
    /\ pending' = None
    /\ IF pending[1].status = "Ok"
       THEN /\ passed' = Append(passed, pending[1].item)
            /\ logged' = Append(logged, pending[1].item)
       ELSE UNCHANGED <<passed, logged>>
    /\ UNCHANGED <<dpc, tpc>>
    /\ UNCHANGED <<batches, input, consumed, skip, chunk, objs, zi, tout, absorbed, rpcs>>
    /\ UNCHANGED <<evars, lvars>>

\* Mutant of DriverStep: the filter is missing; every item is passed on,
\* whatever its status.
DriverStep_PassesErr ==
    /\ dpc = "running" /\ pending # None
    /\ pending' = None
    /\ passed' = Append(passed, pending[1].item)
    /\ logged' = Append(logged, pending[1].item)
    /\ UNCHANGED <<dpc, tpc>>
    /\ UNCHANGED <<batches, input, consumed, skip, chunk, objs, zi, tout, absorbed, rpcs>>
    /\ UNCHANGED <<evars, lvars>>

\* main.rs 103-114, 121-123: the filter stream takes the pair the transformer
\* yielded: an Ok item is yielded on and printed by the while-let loop,
\* anything else breaks the loop, which ends the stream and drops the
\* transformer.
DriverStep ==
    /\ dpc = "running" /\ pending # None
    /\ pending' = None
    /\ IF pending[1].status = "Ok"
       THEN /\ passed' = Append(passed, pending[1].item)
            /\ logged' = Append(logged, pending[1].item)
            /\ UNCHANGED <<dpc, tpc>>
       ELSE /\ dpc' = "done"
            /\ tpc' = "dropped"
            /\ UNCHANGED <<passed, logged>>
    /\ UNCHANGED <<batches, input, consumed, skip, chunk, objs, zi, tout, absorbed, rpcs>>
    /\ UNCHANGED <<evars, lvars>>

\* main.rs 103, 121: the transformer's stream has ended, so do the filter
\* stream and the while-let loop.
DriverEnd ==
    /\ dpc = "running" /\ tpc = "done" /\ pending = None
    /\ dpc' = "done"
    /\ UNCHANGED <<passed, logged, lvars>>
    /\ UNCHANGED <<evars, tvars>>

DriverNext == TransformNext \/ DriverStep \/ DriverEnd
DriverSpec == TransformInit /\ [][DriverNext]_vars


\* ---- load: etl.rs 224-280 ----
\* etl.rs 228: the chunk size given to chunks_timeout.
LoadChunkLimit == 64

\* The string form of an object id or a version (to_string()): a value of
\* its own kind, one for each id or version.
to_string(x) == <<"str", x>>

\* etl.rs 243, 252: doc! { "_id": .., "version": .. }
KeyDoc(change) == [_id |-> to_string(change.object_id), version |-> to_string(change.version)]

\* The loader's input streams: up to MaxInput snapshots, the i-th at version
\* i of one object and carrying object i where it carries one: Created and
\* Mutated with their object, Deleted, a variant the loader does not store
\* (Published, with its object), and Created without an object.
LoadVariants ==
    {<<"Created", TRUE>>, <<"Mutated", TRUE>>, <<"Deleted", FALSE>>,
     <<"Published", TRUE>>, <<"Created", FALSE>>}
LoadInputs == UNION {[1..n -> LoadVariants] : n \in 0..MaxInput}
LoadInputOf(vs) ==
    [i \in 1..Len(vs) |->
        [digest |-> "d1", change |-> Change(vs[i][1], "0xa", i),
         object |-> IF vs[i][2] THEN Some([data |-> i]) ELSE None]]

LInit ==
    /\ \E vs \in LoadInputs : lin = LoadInputOf(vs)
    /\ lconsumed = 0 /\ lchunk = << >> /\ li = 1 /\ lpc = "await_chunk"
    /\ lpending = None /\ lout = << >> /\ storeOps = << >>

\* The generator hands a pair to its consumer and suspends at the yield.
LoadYield(status, item) ==
    /\ lpending' = Some(Pair(status, item))
    /\ lout' = Append(lout, Pair(status, item))

\* etl.rs 228, 231: chunks_timeout hands over the next chunk of n items.
LoadNextChunk(n) ==
    /\ lpc = "await_chunk" /\ lpending = None
    /\ n >= 1 /\ n <= Min(LoadChunkLimit, Len(lin) - lconsumed)
    /\ lchunk' = SubSeq(lin, lconsumed + 1, lconsumed + n)
    /\ lconsumed' = lconsumed + n
    /\ li' = 1
    /\ lpc' = "item"
    /\ UNCHANGED <<lin, lpending, lout, storeOps>>
    /\ UNCHANGED <<evars, tvars, dpc, passed, logged>>

\* etl.rs 231: the chunk stream ends, and so does the generator.
LoadEndOfInput ==
    /\ lpc = "await_chunk" /\ lpending = None
    /\ lconsumed = Len(lin)
    /\ lpc' = "done"
    /\ UNCHANGED <<lin, lconsumed, lchunk, li, lpending, lout, storeOps>>
    /\ UNCHANGED <<evars, tvars, dpc, passed, logged>>

\* The item the for loop of etl.rs 239 is at.
AtItem == lpc = "item" /\ lpending = None /\ li <= Len(lchunk)

\* Mutant of LoadDelete: the failure of delete_one ends the stream.
LoadDelete_StopOnErr(ok) ==
    /\ AtItem /\ lchunk[li].change.kind = "Deleted"
    /\ storeOps' = Append(storeOps,
           [op |-> "delete", key |-> KeyDoc(lchunk[li].change), body |-> None,
            upsert |-> FALSE, ok |-> ok])
    /\ LoadYield(IF ok THEN "Ok" ELSE "Err", lchunk[li])
    /\ li' = li + 1
    /\ lpc' = IF ok THEN lpc ELSE "done"
    /\ UNCHANGED <<lin, lconsumed, lchunk>>
    /\ UNCHANGED <<evars, tvars, dpc, passed, logged>>

\* etl.rs 241-249: Deleted: delete_one by key; the pair tells how it went.
LoadDelete(ok) ==
    /\ AtItem /\ lchunk[li].change.kind = "Deleted"
    /\ storeOps' = Append(storeOps,
           [op |-> "delete", key |-> KeyDoc(lchunk[li].change), body |-> None,
            upsert |-> FALSE, ok |-> ok])
    /\ LoadYield(IF ok THEN "Ok" ELSE "Err", lchunk[li])
    /\ li' = li + 1
    /\ UNCHANGED <<lin, lconsumed, lchunk, lpc>>
    /\ UNCHANGED <<evars, tvars, dpc, passed, logged>>

\* Mutant of UpsertKinds: Mutated falls through to the catch-all arm.
UpsertKinds_CreatedOnly == {"Created"}

\* etl.rs 250: the variants of the upsert arm.
UpsertKinds == {"Created", "Mutated"}

\* etl.rs 262: item.object.as_ref().unwrap() panics on an absent object.
UnwrapFails(item) == item.change.kind \in UpsertKinds /\ item.object = None

\* etl.rs 250-273: Created or Mutated with its object: update_one by key
\* with $set {_id, version, object} and upsert(true).
LoadUpsert(ok) ==
    /\ AtItem /\ lchunk[li].change.kind \in UpsertKinds
    /\ ~UnwrapFails(lchunk[li])
    /\ storeOps' = Append(storeOps,
           [op |-> "upsert", key |-> KeyDoc(lchunk[li].change),
            body |-> Some([_id |-> to_string(lchunk[li].change.object_id),
                           version |-> to_string(lchunk[li].change.version),
                           object |-> lchunk[li].object[1]]),
            upsert |-> TRUE, ok |-> ok])
    /\ LoadYield(IF ok THEN "Ok" ELSE "Err", lchunk[li])
    /\ li' = li + 1
    /\ UNCHANGED <<lin, lconsumed, lchunk, lpc>>
    /\ UNCHANGED <<evars, tvars, dpc, passed, logged>>

\* etl.rs 262: Created or Mutated without an object: the unwrap panics
\* before update_one is called.
LoadUnwrapPanic ==
    /\ AtItem /\ UnwrapFails(lchunk[li])
    /\ lpc' = "panicked"
    /\ UNCHANGED <<lin, lconsumed, lchunk, li, lpending, lout, storeOps>>
    /\ UNCHANGED <<evars, tvars, dpc, passed, logged>>

\* etl.rs 275: any other variant: nothing.
LoadOther ==
    /\ AtItem /\ lchunk[li].change.kind \notin (UpsertKinds \cup {"Deleted"})
    /\ li' = li + 1
    /\ UNCHANGED <<lin, lconsumed, lchunk, lpc, lpending, lout, storeOps>>
    /\ UNCHANGED <<evars, tvars, dpc, passed, logged>>

\* etl.rs 239, 231: the for loop over the chunk ends; the generator asks for
\* the next chunk.
LoadChunkDone ==
    /\ lpc = "item" /\ lpending = None
    /\ li > Len(lchunk)
    /\ lpc' = "await_chunk"
    /\ lchunk' = << >> /\ li' = 1
    /\ UNCHANGED <<lin, lconsumed, lpending, lout, storeOps>>
    /\ UNCHANGED <<evars, tvars, dpc, passed, logged>>

\* A consumer that keeps polling the stream takes the yielded pair.
LoadPull ==
    /\ lpending # None
    /\ lpending' = None
    /\ UNCHANGED <<lin, lconsumed, lchunk, li, lpc, lout, storeOps>>
    /\ UNCHANGED <<evars, tvars, dpc, passed, logged>>

LoadNext ==
    \/ \E n \in 1..MaxInput : LoadNextChunk(n)
    \/ LoadEndOfInput
    \/ \E ok \in BOOLEAN : LoadDelete(ok)
    \/ \E ok \in BOOLEAN : LoadUpsert(ok)
    \/ LoadUnwrapPanic
    \/ LoadOther
    \/ LoadChunkDone
    \/ LoadPull

LoadInit == EIdle /\ TIdle /\ DStart /\ LInit
LoadSpec == LoadInit /\ [][LoadNext]_vars


\* ======================================================================
\* Properties of the driver and the transformer
\* ======================================================================
SameObject(o, req) ==
    o.change.object_id = req.object_id /\ o.change.version = req.version

\* The places of tout whose item is the change the request req asks about.
PairsOf(req) == {j \in 1..Len(tout) : SameObject(tout[j].item, req)}

\* The input item the request req asks about.
InputOfReq(req) == input[CHOOSE i \in 1..Len(input) : SameObject(input[i], req)]

\* The place of the first Err pair of tout; Len(tout) + 1 when there is none.
FirstErr ==
    LET E == {j \in 1..Len(tout) : tout[j].status = "Err"} IN
    IF E = {} THEN Len(tout) + 1 ELSE CHOOSE j \in E : \A k \in E : j <= k

\* How many pairs of tout the consumer has taken.
Handled == IF pending = None THEN Len(tout) ELSE Len(tout) - 1

IsStored(o) == o.change.kind \in {"Created", "Mutated", "Deleted"}

\* C2: in the 'all' pipeline every item that leaves the transformer Ok before
\* any Err and is Created, Mutated or Deleted reaches the loader and causes
\* exactly one store operation (an upsert, or a delete for Deleted) keyed by
\* its object id and version: once the pipeline has ended, the operations on
\* the store are those of these items, one each, in order.
C2_EveryOkItemIsStored ==
    dpc = "done" =>
        LET L == SelectSeq([j \in 1..(FirstErr - 1) |-> tout[j].item], IsStored) IN
        /\ Len(storeOps) = Len(L)
        /\ \A j \in 1..Len(L) :
              /\ storeOps[j].op = (IF L[j].change.kind = "Deleted" THEN "delete" ELSE "upsert")
              /\ storeOps[j].key = KeyDoc(L[j].change)

\* C3: the driver passes on, unchanged and in order, exactly the Ok items the
\* transformer yields before its first Err pair; the Err item is not passed
\* on, and once the driver has seen it the transformer is dropped, so no pair
\* follows the failing one, not even for the rest of its batch.
C3_DriverStopsAtFirstErr ==
    /\ passed = [j \in 1..Min(FirstErr - 1, Handled) |-> tout[j].item]
    /\ logged = passed
    /\ FirstErr <= Len(tout) => FirstErr = Len(tout)
    /\ FirstErr <= Handled => dpc = "done" /\ tpc = "dropped"

\* C3 witness: the driver has stopped at an Err pair after passing an Ok item
\* on, with an item of the failing batch still unresolved.
C3_Witness ==
    /\ dpc = "done" /\ tpc = "dropped"
    /\ passed # << >>
    /\ zi <= Len(chunk)

\* C4 (as claimed): when the input has ended, there is one pair per input
\* item: as many pairs as items, each item in exactly one pair.
C4_OnePairPerItem ==
    tpc = "done" =>
        /\ Len(tout) = Len(input)
        /\ \A i \in 1..Len(input) :
              Cardinality({j \in 1..Len(tout) : tout[j].item.change = input[i].change}) = 1

\* C4 (amended): when the input has ended, every input item is in exactly one
\* pair or was absorbed as a no-object outcome (and then is in no pair): the
\* pairs number the items consumed less the no-object outcomes.
C4_OnePairPerItemUnlessAbsorbed ==
    tpc = "done" =>
        /\ consumed = Len(input)
        /\ Len(tout) + Len(absorbed) = Len(input)
        /\ \A i \in 1..Len(input) :
              Cardinality({j \in 1..Len(tout) : tout[j].item.change = input[i].change})
              + Cardinality({j \in 1..Len(absorbed) : absorbed[j] = input[i]}) = 1
        /\ \A j \in 1..Len(absorbed) : needs_fetching_object(absorbed[j])

\* C4 witness: the input has ended with some items paired and one absorbed.
C4_Witness == tpc = "done" /\ absorbed # << >> /\ Len(tout) >= 2

\* C5: after a failed bulk call the items it asked about are asked about one
\* by one, in the order of the bulk request, before anything else is asked;
\* each individual call decides its item alone: a failed call gives (Err,
\* item) with the item as it came, a found object gives (Ok, item with that
\* object), a no-object answer gives no pair; and an Err pair comes from a
\* failed individual call only, which is made only after a failed bulk call.
C5_FallbackIsIndividual ==
    /\ \A p \in 1..Len(rpcs) :
          (rpcs[p].call = "multi" /\ ~rpcs[p].ok) =>
              /\ \A k \in 1..Len(rpcs[p].reqs) :
                    p + k <= Len(rpcs) =>
                        /\ rpcs[p + k].call = "single"
                        /\ rpcs[p + k].reqs = << rpcs[p].reqs[k] >>
              /\ p + Len(rpcs[p].reqs) > Len(rpcs) => tpc = "indiv"
    /\ \A p \in 1..Len(rpcs) :
          rpcs[p].call = "single" =>
              LET req == rpcs[p].reqs[1]
                  it == InputOfReq(req) IN
              /\ \E q \in 1..(p - 1) :
                    /\ rpcs[q].call = "multi" /\ ~rpcs[q].ok
                    /\ p - q <= Len(rpcs[q].reqs)
                    /\ rpcs[q].reqs[p - q] = req
              /\ ~rpcs[p].ok =>
                    \E j \in 1..Len(tout) : PairsOf(req) = {j} /\ tout[j] = Pair("Err", it)
              /\ (rpcs[p].ok /\ rpcs[p].answer[1].tag = "VersionFound") =>
                    \E j \in 1..Len(tout) :
                        /\ PairsOf(req) = {j}
                        /\ tout[j] = Pair("Ok", [it EXCEPT !.object = Some(rpcs[p].answer[1].obj)])
              /\ (rpcs[p].ok /\ rpcs[p].answer[1].tag # "VersionFound") => PairsOf(req) = {}
    /\ \A j \in 1..Len(tout) :
          tout[j].status = "Err" =>
              \E p \in 1..Len(rpcs) :
                  /\ rpcs[p].call = "single" /\ ~rpcs[p].ok
                  /\ SameObject(tout[j].item, rpcs[p].reqs[1])

\* C5 witness: a bulk call for two items failed; the first individual call
\* failed too, the second found its object, and the input has ended.
C5_Witness ==
    /\ tpc = "done"
    /\ \E p \in 1..Len(rpcs) :
          /\ p + 2 <= Len(rpcs)
          /\ rpcs[p].call = "multi" /\ ~rpcs[p].ok /\ Len(rpcs[p].reqs) = 2
          /\ ~rpcs[p + 1].ok
          /\ rpcs[p + 2].ok /\ rpcs[p + 2].answer[1].tag = "VersionFound"

\* C6: a bulk answer whose length differs from the request's aborts the
\* process: it is the last thing the transformer does, no pair exists for any
\* item it asked about, and the zip loop only ever runs over an answer as
\* long as the chunk (nothing is truncated or padded).
C6_MismatchAborts ==
    /\ \A p \in 1..Len(rpcs) :
          (rpcs[p].call = "multi" /\ rpcs[p].ok /\ Len(rpcs[p].answer) # Len(rpcs[p].reqs)) =>
              /\ p = Len(rpcs)
              /\ tpc = "panicked"
              /\ pending = None
              /\ \A k \in 1..Len(rpcs[p].reqs) : PairsOf(rpcs[p].reqs[k]) = {}
    /\ tpc = "zip" => Len(objs) = Len(chunk)
    /\ tpc = "panicked" =>
          /\ rpcs # << >>
          /\ rpcs[Len(rpcs)].call = "multi" /\ rpcs[Len(rpcs)].ok
          /\ Len(rpcs[Len(rpcs)].answer) # Len(rpcs[Len(rpcs)].reqs)
          /\ rpcs[Len(rpcs)].reqs = query_objs

\* C6 witness: the answer to a bulk call for two items held one response; the
\* process aborted with a later item of the input never pulled.
C6_Witness ==
    /\ tpc = "panicked"
    /\ Len(chunk) = 2 /\ Len(objs) = 1
    /\ consumed < Len(input)

\* C13: in every pair the transformer has emitted, the item carries an
\* object exactly when its variant is Published, Created or Mutated and the
\* pair is Ok; a Transferred, Deleted or Wrapped item is emitted Ok and as it
\* came, without object; an Err pair carries no object.
C13_ObjectIffFetchedOk ==
    \A j \in 1..Len(tout) :
        LET p == tout[j]
            src == InputOfReq([object_id |-> p.item.change.object_id,
                               version |-> p.item.change.version]) IN
        /\ (p.item.object # None) <=>
              (p.item.change.kind \in {"Published", "Created", "Mutated"} /\ p.status = "Ok")
        /\ p.item.change.kind \in {"Transferred", "Deleted", "Wrapped"} =>
              (p = [status |-> "Ok", item |-> src] /\ src.object = None)
        /\ p.status = "Err" => p.item.object = None

\* C13 witness: three pairs are out: a Deleted item as it came, a Created
\* item with its object, and an Err pair.
C13_Witness ==
    /\ Len(tout) = 3
    /\ \E j \in 1..3 : tout[j].item.change.kind = "Deleted" /\ tout[j].status = "Ok"
    /\ \E j \in 1..3 : tout[j].item.change.kind = "Created" /\ tout[j].item.object # None
    /\ \E j \in 1..3 : tout[j].status = "Err"

IsSkipKind(o) == o.change.kind \in {"Transferred", "Deleted", "Wrapped"}
IsFetchKind(o) == o.change.kind \in {"Published", "Created", "Mutated"}

\* The items of the batches bs in the order the claim gives them: batch
\* after batch, in each the skip-fetch items in input order, then the
\* needs-fetch items in input order.
RECURSIVE BatchOrder(_)
BatchOrder(bs) ==
    IF bs = << >> THEN << >>
    ELSE SelectSeq(Head(bs), IsSkipKind) \o SelectSeq(Head(bs), IsFetchKind)
         \o BatchOrder(Tail(bs))

IsEmitted(o) == \E j \in 1..Len(tout) : tout[j].item.change = o.change

\* C14: the items of the emitted pairs are, in order and each once, the
\* emitted ones among the items of the batches handed over so far taken
\* batch after batch, within a batch the skip-fetch items in input order
\* followed by the needs-fetch items in input order.
C14_SkipFirstThenFetchedPerBatch ==
    LET ord == SelectSeq(BatchOrder(batches), IsEmitted) IN
    /\ Len(tout) = Len(ord)
    /\ \A j \in 1..Len(tout) : tout[j].item.change = ord[j].change

\* C14 witness: a batch of Created then Deleted and a batch of one
\* Transferred have come out as Deleted, Created, Transferred.
C14_Witness ==
    /\ tpc = "done" /\ Len(batches) = 2 /\ Len(batches[1]) = 2 /\ Len(tout) = 3
    /\ input[1].change.kind = "Created" /\ input[2].change.kind = "Deleted"
    /\ input[3].change.kind = "Transferred"
    /\ tout[1].item.change = input[2].change
    /\ tout[2].item.change = input[1].change
    /\ tout[3].item.change = input[3].change

\* The answer at place k of the answered request p found no object.
NoObjectAt(p, k) ==
    /\ rpcs[p].ok /\ k <= Len(rpcs[p].answer) /\ k <= Len(rpcs[p].reqs)
    /\ rpcs[p].answer[k].tag # "VersionFound"

\* C16: an item whose answer, in a bulk answer or in an individual one,
\* found no object is in no pair, neither Ok nor Err, and is not passed on by
\* the driver; the driver is halted by an Err pair only, which comes from a
\* failed call, so never by such an item.
C16_NoObjectOutcomeEmitsNothing ==
    /\ \A p \in 1..Len(rpcs) : \A k \in 1..Len(rpcs[p].reqs) :
          NoObjectAt(p, k) =>
              /\ PairsOf(rpcs[p].reqs[k]) = {}
              /\ \A j \in 1..Len(passed) : ~SameObject(passed[j], rpcs[p].reqs[k])
    /\ \A a \in 1..Len(absorbed) :
          \E p \in 1..Len(rpcs) : \E k \in 1..Len(rpcs[p].reqs) :
              NoObjectAt(p, k) /\ SameObject(absorbed[a], rpcs[p].reqs[k])
    /\ tpc = "dropped" =>
          /\ tout # << >> /\ tout[Len(tout)].status = "Err"
          /\ \E p \in 1..Len(rpcs) :
                /\ rpcs[p].call = "single" /\ ~rpcs[p].ok
                /\ SameObject(tout[Len(tout)].item, rpcs[p].reqs[1])

\* C16 witness: one item was absorbed from a bulk answer and one from an
\* individual answer, a third item was passed on, and the pipeline ended
\* without being halted.
C16_Witness ==
    /\ dpc = "done" /\ tpc = "done" /\ Len(absorbed) = 2 /\ Len(passed) = 1
    /\ \E p \in 1..Len(rpcs) : rpcs[p].call = "multi" /\ NoObjectAt(p, 1)
    /\ \E p \in 1..Len(rpcs) : rpcs[p].call = "single" /\ NoObjectAt(p, 1)

\* Every input item has been pulled and is in exactly one pair or was
\* absorbed as a no-object outcome.
AllProcessed ==
    /\ consumed = Len(input)
    /\ \A i \in 1..Len(input) :
          \/ \E j \in 1..Len(tout) : tout[j].item.change = input[i].change
          \/ \E a \in 1..Len(absorbed) : absorbed[a].change = input[i].change

\* C18 (as claimed): once the input has ended and the transformer has
\* stopped, by ending its stream or otherwise, every input item has been
\* processed: it is in a pair or was absorbed.
C18_StoppedMeansAllProcessed ==
    tpc \in {"done", "panicked"} => AllProcessed

\* C18 (amended): the transformer eventually stops; it ends its stream only
\* when every input item, those of a last partial batch included, has been
\* processed; the one other way it stops is the abort on a bulk answer of
\* the wrong length, and then the items of that batch and of later batches
\* are not processed.
C18_EndsWithAllProcessedUnlessAborted ==
    /\ [](tpc = "done" => AllProcessed)
    /\ [](tpc = "panicked" =>
            /\ rpcs[Len(rpcs)].call = "multi" /\ rpcs[Len(rpcs)].ok
            /\ Len(rpcs[Len(rpcs)].answer) # Len(rpcs[Len(rpcs)].reqs))
    /\ <>(tpc \in {"done", "panicked"})

\* C18 witness: an input of three items came as a batch of two and a last
\* batch of one; the stream has ended with items paired and one absorbed.
C18_Witness ==
    /\ tpc = "done" /\ Len(input) = 3 /\ Len(batches) = 2 /\ Len(batches[2]) = 1
    /\ Len(tout) = 2 /\ Len(absorbed) = 1

\* C20: every Created or Mutated item the driver's filter stream yields, which
\* is what a loader placed after it receives, carries its object: the
\* loader's unwrap of item.object cannot fail on it.
C20_PassedUpsertsCarryObject ==
    \A j \in 1..Len(passed) :
        passed[j].change.kind \in {"Created", "Mutated"} => passed[j].object # None

\* C20 witness: a Created item was passed on with its object, and the
\* pipeline was halted by the Err pair of another Created item, which
\* carries none.
C20_Witness ==
    /\ dpc = "done" /\ tpc = "dropped"
    /\ \E j \in 1..Len(passed) :
          passed[j].change.kind = "Created" /\ passed[j].object # None
    /\ tout[Len(tout)].status = "Err"
    /\ tout[Len(tout)].item.change.kind = "Created"
    /\ tout[Len(tout)].item.object = None


\* ======================================================================
\* Properties of the extractor
\* ======================================================================
\* The events a page holds: one per change record, block by block and record
\* by record, with the block's digest, the record itself and no object.
RECURSIVE Flatten(_)
Flatten(data) ==
    IF data = << >> THEN << >>
    ELSE (IF Head(data).object_changes = None THEN << >>
          ELSE [k \in 1..Len(Head(data).object_changes[1]) |->
                   [digest |-> Head(data).digest,
                    change |-> Head(data).object_changes[1][k],
                    object |-> None]])
         \o Flatten(Tail(data))

\* The events of the pages of ps that were not marked skip, page after page.
RECURSIVE EventsOf(_)
EventsOf(ps) ==
    IF ps = << >> THEN << >>
    ELSE (IF Head(ps).skip THEN << >> ELSE Flatten(Head(ps).data)) \o EventsOf(Tail(ps))

Front(s) == SubSeq(s, 1, Len(s) - 1)
HasNext(p) == p.next_cursor # None

\* The pages the loop has finished with (the last one is still being
\* iterated while the generator is among the yields).
PagesDone == IF epc = "emit" THEN Front(oks) ELSE oks

\* C1: with P1 (a next cursor), then one or more polls P2 without a next
\* cursor, then P3 with one, for the cursor P1 returned, what has been
\* emitted once P3 is dealt with is P1's events followed by P3's.
C1_EmitsP1ThenP3 ==
    (/\ epc # "emit"
     /\ Len(oks) >= 3
     /\ HasNext(oks[1])
     /\ \A k \in 2..(Len(oks) - 1) : ~HasNext(oks[k])
     /\ HasNext(oks[Len(oks)]))
    => emitted = Flatten(oks[1].data) \o Flatten(oks[Len(oks)].data)

\* C7 (as claimed): a page whose request completed after rx_term became ready
\* has no effect: no event of it is emitted and the callback is not invoked
\* for it (so the cursor stays), the loop having terminated instead.
C7_SignalFirstMeansNoPage ==
    \A i \in 1..Len(oks) :
        oks[i].late =>
            /\ Len(emitted) <= Len(EventsOf(SubSeq(oks, 1, i - 1)))
            /\ Len(calls) <= Len(SelectSeq(SubSeq(oks, 1, i - 1), HasNext))

\* C7 (amended): when rx_term is ready at the select and the request in
\* flight (or about to be issued) has not completed, the only step the
\* extractor takes is to terminate, with nothing emitted, no callback and the
\* cursor as it was; and once terminated it stays so and emits nothing more.
C7_TermBeatsPendingRequest ==
    [][/\ (epc \in {"select", "await"} /\ rx_term = "ready" /\ resp = None /\ epc' # epc)
            => (epc' = "done" /\ emitted' = emitted /\ calls' = calls /\ cursor' = cursor)
       /\ epc = "done"
            => (epc' = "done" /\ emitted' = emitted /\ calls' = calls /\ cursor' = cursor)]_vars

\* C7 witness: the first request was issued and dropped unanswered: the
\* extractor is terminated and no response was ever taken.
C7_Witness ==
    /\ epc = "done" /\ rx_term = "ready"
    /\ nreq = 1 /\ resp = None
    /\ oks = << >> /\ retry_count = 0 /\ emitted = << >>

\* C17: once rx_term is ready the extractor terminates, wherever it is at
\* that moment: with a request in flight, answered or not, among the yields
\* of a page, or in the sleep after an error or after a page without next
\* cursor.
C17_SignalLeadsToTermination == (rx_term = "ready") ~> (epc = "done")

\* C17 witness: the extractor has terminated after a failed request for a
\* stalled cursor (a page without next cursor had been taken before).
C17_Witness ==
    /\ epc = "done" /\ rx_term = "ready"
    /\ skip_page /\ retry_count >= 1

\* The events of page i of oks that the page taken before it did not hold:
\* all of them, unless page i is a later answer for the cursor page i - 1
\* stalled on (then page i extends page i - 1).
NewEvents(i) ==
    IF oks[i].skip
    THEN SubSeq(Flatten(oks[i].data), Len(Flatten(oks[i - 1].data)) + 1,
                Len(Flatten(oks[i].data)))
    ELSE Flatten(oks[i].data)

RECURSIVE HistoryUpTo(_)
HistoryUpTo(n) == IF n = 0 THEN << >> ELSE HistoryUpTo(n - 1) \o NewEvents(n)

\* C19: whenever the extractor is done with the pages it has taken, what it
\* has emitted is every change record those pages held, each once: of a
\* later answer for a stalled cursor, the records the stalled answer did not
\* hold yet.
C19_NoRecordLostAcrossStall ==
    epc # "emit" => emitted = HistoryUpTo(Len(oks))

\* C8: taking a failed request emits nothing, leaves the cursor, the skip flag
\* and the callback log as they are and goes to the 500 ms sleep; the sleep
\* leads back to the select with the same cursor, where the next request is
\* issued with that cursor; no count of failures ends the stream: the
\* extractor terminates only when rx_term is ready.
C8_ErrorRetriesSameCursor ==
    [][/\ (epc = "await" /\ resp # None /\ ~resp[1].ok /\ epc' # epc)
            => /\ epc' \in {"sleep_err", "done"}
               /\ emitted' = emitted /\ cursor' = cursor /\ reqCursor' = reqCursor
               /\ skip_page' = skip_page /\ calls' = calls /\ oks' = oks
       /\ (epc = "sleep_err")
            => /\ reqCursor = cursor
               /\ epc' \in {"sleep_err", "select"}
               /\ emitted' = emitted /\ cursor' = cursor /\ reqCursor' = reqCursor
               /\ skip_page' = skip_page /\ calls' = calls
       /\ (epc = "select" /\ epc' = "await")
            => (reqCursor' = cursor /\ cursor' = cursor)
       /\ (epc # "done" /\ epc' = "done") => rx_term = "ready"]_vars

\* C8 witness: two requests in a row have failed and the third one, for the
\* same cursor, is in flight.
C8_Witness ==
    /\ retry_count = 2 /\ epc = "await" /\ nreq = 3
    /\ reqCursor = cursor /\ cursor = start_from /\ emitted = << >>

\* C9: what has been emitted is, page after page in the order the pages were
\* taken, the events of every page not marked skip: one event per change
\* record, in block order and record order, with the block's digest, the
\* record unaltered and no object; of the page being iterated, a prefix.
C9_EmitsPageRecordsInOrder ==
    /\ IsPrefix(EventsOf(PagesDone), emitted)
    /\ IsPrefix(emitted, EventsOf(oks))
    /\ epc # "emit" => emitted = EventsOf(oks)

\* C9 witness: the whole sample history came as one page, not skipped, and
\* was emitted; a later page has been dealt with too.
C9_Witness ==
    /\ epc # "emit"
    /\ Len(oks) >= 2
    /\ oks[1].data = SampleBlocks /\ ~oks[1].skip
    /\ Len(emitted) > Len(Flatten(SampleBlocks))

\* C10: the callback has been invoked once for each page dealt with that
\* carried a next cursor, in order, with the cursor of that page's request and
\* the next cursor it returned, and for nothing else; it is invoked only when
\* the page's events are all out; the first previous cursor is start_from and
\* each later one is the next cursor of the invocation before.
C10_CallbackPerAdvance ==
    LET adv == SelectSeq(PagesDone, HasNext) IN
    /\ Len(calls) = Len(adv)
    /\ \A i \in 1..Len(adv) :
          calls[i] = [previous |-> adv[i].cursor, next |-> adv[i].next_cursor[1]]
    /\ calls # << >> => calls[1].previous = start_from
    /\ \A i \in 1..(Len(calls) - 1) : calls[i + 1].previous = Some(calls[i].next)
    /\ (oks # << >> /\ HasNext(oks[Len(oks)]) /\ Len(calls) = Len(SelectSeq(oks, HasNext)))
          => emitted = EventsOf(oks)

\* C10 witness: two callbacks have run, with a failed request or a page
\* without next cursor among the three requests.
C10_Witness ==
    /\ Len(calls) = 2
    /\ nreq = 3 /\ epc = "select"
    /\ emitted # << >>

\* ======================================================================
\* Properties of the loader
\* ======================================================================
\* How many input items the loader's for loop has gone past.
Processed == lconsumed - Len(lchunk) + li - 1

\* The items gone past that the loader stores, in input order.
StoredSoFar == SelectSeq(SubSeq(lin, 1, Processed), IsStored)

\* C11: the operations issued on the store are those of the Deleted, Created
\* and Mutated items gone past, one each and in order: for Deleted a delete
\* (no upsert) keyed by the strings of its id and version, for Created or
\* Mutated an upsert (upsert = true, no delete) with the same kind of key
\* whose body holds the item's object; an item of any other variant causes
\* no operation and no pair.
C11_OneStoreOpPerVariant ==
    /\ Len(storeOps) = Len(StoredSoFar)
    /\ \A j \in 1..Len(StoredSoFar) :
          LET it == StoredSoFar[j]
              key == [_id |-> <<"str", it.change.object_id>>,
                      version |-> <<"str", it.change.version>>] IN
          /\ storeOps[j].key = key
          /\ it.change.kind = "Deleted" =>
                /\ storeOps[j].op = "delete" /\ ~storeOps[j].upsert
                /\ storeOps[j].body = None
          /\ it.change.kind \in {"Created", "Mutated"} =>
                /\ storeOps[j].op = "upsert" /\ storeOps[j].upsert
                /\ storeOps[j].body # None
                /\ storeOps[j].body[1].object = it.object[1]
                /\ storeOps[j].body[1]._id = key._id
                /\ storeOps[j].body[1].version = key.version
    /\ [j \in 1..Len(lout) |-> lout[j].item] = StoredSoFar

\* C11 witness: a stream of three items has ended; one was deleted, one (a
\* Mutated) upserted and one caused nothing.
C11_Witness ==
    /\ lpc = "done" /\ Len(lin) = 3 /\ Len(storeOps) = 2
    /\ \E j \in 1..3 : lin[j].change.kind = "Published"
    /\ \E j \in 1..3 : lin[j].change.kind = "Mutated"
    /\ \E j \in 1..2 : storeOps[j].op = "delete"

\* C12: there is one pair per operation attempted, in order, for the item
\* the operation was for, Ok if the operation succeeded and Err if it
\* failed; and the loader's stream ends only when every input item has been
\* gone past, whatever failed on the way.
C12_PairPerOperation ==
    /\ Len(lout) = Len(storeOps)
    /\ \A j \in 1..Len(lout) :
          /\ lout[j].status = (IF storeOps[j].ok THEN "Ok" ELSE "Err")
          /\ j <= Len(StoredSoFar) /\ lout[j].item = StoredSoFar[j]
    /\ lpc = "done" =>
          /\ Processed = Len(lin)
          /\ Len(storeOps) = Len(SelectSeq(lin, IsStored))

\* C12 witness: the first two operations failed (the first a delete), the
\* third succeeded, and the stream has ended.
C12_Witness ==
    /\ lpc = "done" /\ Len(lout) = 3
    /\ lout[1].status = "Err" /\ lout[2].status = "Err" /\ lout[3].status = "Ok"
    /\ lout[1].item.change.kind = "Deleted"

====
